---- MODULE Spec2Model ----
(***************************************************************************)
(* Model of poohlaha/monitor: a sampling loop (src/main.rs) that reads the *)
(* aggregate CPU counters of /proc/stat, estimates the CPU usage from two  *)
(* consecutive reads and prints a system-information record                *)
(* (src/stat/mod.rs, src/prepare.rs).                                      *)
(*                                                                         *)
(* Text is modelled as a sequence of one-character strings, so that        *)
(* `lines`, `starts_with`, `split_whitespace`, `trim`, `split(':')` and    *)
(* `parse::<u64>` are computed as the library computes them.               *)
(***************************************************************************)
EXTENDS Integers, Sequences, FiniteSets, TLC

VARIABLES
    pc,               \* position of the running function / of main's loop
    proc_stat,        \* /proc/stat as the next read sees it: [readable, text]
    overflow_checks,  \* build profile: TRUE = overflow-checked (debug), FALSE = wrapping (release)
    prev_stat,        \* main.rs `prev_stat` / argument `prev`
    current_stat,     \* main.rs `current_stat` / argument `current`
    cpu_usage,        \* main.rs `cpu_usage` / argument of get_system_info
    result,           \* main.rs `result` (HttpResponse)
    stdout,           \* the records printed so far
    tick,             \* number of loop iterations begun
    host,             \* the host as the collaborators see it (cpuinfo, meminfo, USER, passwd, sh)
    ret,              \* return value of the function under check
    calls             \* the lookups and commands performed so far

vars == <<pc, proc_stat, overflow_checks, prev_stat, current_stat, cpu_usage,
          result, stdout, tick, host, ret, calls>>

----------------------------------------------------------------------------
(* Bounds of the model *)

MaxLines == 2        \* lines of a generated /proc/stat text
MaxTick == 33        \* largest forward step of a counter between two reads
MaxBack == 3         \* largest backward step (rollback) of a counter
MaxLoops == 2        \* iterations of main's loop that are explored

----------------------------------------------------------------------------
(* Characters and strings *)

NoStat == [user |-> 0, nice |-> 0, system |-> 0, idle |-> 0, io_wait |-> 0,
           irq |-> 0, soft_irq |-> 0, steal_stolen |-> 0, guest |-> 0, guest_nice |-> 0]

\* char::is_whitespace restricted to the characters of the model
IsWhitespace(c) == c \in {" ", "\t", "\n", "\r"}

IsDigit(c) == c \in {"0", "1", "2", "3", "4", "5", "6", "7", "8", "9"}

DigitVal(c) ==
    CASE c = "0" -> 0 [] c = "1" -> 1 [] c = "2" -> 2 [] c = "3" -> 3 [] c = "4" -> 4
      [] c = "5" -> 5 [] c = "6" -> 6 [] c = "7" -> 7 [] c = "8" -> 8 [] c = "9" -> 9

\* str::starts_with
StartsWith(s, p) == Len(s) >= Len(p) /\ SubSeq(s, 1, Len(p)) = p

\* the elements of a finite set of integers in increasing order
Ascending(S) == [k \in 1..Cardinality(S) |-> CHOOSE i \in S : Cardinality({j \in S : j < i}) = k - 1]

\* str::split(sep) for a one-character separator: the pieces between the separators,
\* empty pieces included
SplitOn(s, sep) ==
    LET at == Ascending({i \in 1..Len(s) : s[i] = sep})
        from(k) == IF k = 1 THEN 1 ELSE at[k - 1] + 1
        to(k) == IF k = Len(at) + 1 THEN Len(s) ELSE at[k] - 1
    IN [k \in 1..(Len(at) + 1) |-> SubSeq(s, from(k), to(k))]

StripCr(l) == IF l /= <<>> /\ l[Len(l)] = "\r" THEN SubSeq(l, 1, Len(l) - 1) ELSE l

\* str::lines: split at "\n", a final empty piece is dropped, a trailing "\r" of a line is dropped
Lines(s) ==
    LET pieces == SplitOn(s, "\n")
        kept == IF pieces[Len(pieces)] = <<>> THEN SubSeq(pieces, 1, Len(pieces) - 1) ELSE pieces
    IN [i \in 1..Len(kept) |-> StripCr(kept[i])]

\* str::split_whitespace: the maximal runs of non-whitespace characters
SplitWhitespace(s) ==
    LET black(i) == i >= 1 /\ i <= Len(s) /\ ~IsWhitespace(s[i])
        starts == Ascending({i \in 1..Len(s) : black(i) /\ ~black(i - 1)})
        ends == Ascending({i \in 1..Len(s) : black(i) /\ ~black(i + 1)})
    IN [k \in 1..Len(starts) |-> SubSeq(s, starts[k], ends[k])]

\* str::trim: leading and trailing whitespace removed
Trim(s) ==
    LET black == {i \in 1..Len(s) : ~IsWhitespace(s[i])}
    IN IF black = {} THEN <<>>
       ELSE SubSeq(s, CHOOSE i \in black : \A j \in black : i <= j,
                      CHOOSE i \in black : \A j \in black : j <= i)

RECURSIVE DigitsValue(_, _)
DigitsValue(s, acc) == IF s = <<>> THEN acc ELSE DigitsValue(Tail(s), acc * 10 + DigitVal(Head(s)))

\* str::parse::<u64>: an optional "+", then one or more decimal digits.
\* (The tokens of the model are short, so the value never exceeds u64::MAX.)
ParseU64(tok) ==
    LET digits == IF tok /= <<>> /\ Head(tok) = "+" THEN Tail(tok) ELSE tok
    IN IF digits /= <<>> /\ \A i \in 1..Len(digits) : IsDigit(digits[i])
       THEN [ok |-> TRUE, v |-> DigitsValue(digits, 0)]
       ELSE [ok |-> FALSE, v |-> 0]

----------------------------------------------------------------------------
(* Stat::read_proc_stat *)

Panic(why) == [kind |-> "panic", stat |-> NoStat, msg |-> why]
IoErr(why) == [kind |-> "err", stat |-> NoStat, msg |-> why]
OkStat(s) == [kind |-> "ok", stat |-> s, msg |-> ""]

\* mutant: the label is matched without the space that follows it
FindCpuLineAnyCpuPrefix(lines) ==
    LET hits == {i \in 1..Len(lines) : StartsWith(lines[i], <<"c", "p", "u">>)}
    IN IF hits = {} THEN 0 ELSE CHOOSE i \in hits : \A j \in hits : i <= j

\* lines.iter().find(|line| line.starts_with("cpu ")): index of the first such line, 0 if none
FindCpuLine(lines) ==
    LET hits == {i \in 1..Len(lines) : StartsWith(lines[i], <<"c", "p", "u", " ">>)}
    IN IF hits = {} THEN 0 ELSE CHOOSE i \in hits : \A j \in hits : i <= j

\* fields[1] .. fields[10], each indexed and parsed in turn; the first failure panics
FieldsToStat(fields) ==
    LET p(k) == ParseU64(fields[k + 1])
        bad == {k \in 1..10 : Len(fields) < k + 1 \/ ~p(k).ok}
        first == CHOOSE k \in bad : \A j \in bad : k <= j
    IN IF bad /= {}
       THEN (IF Len(fields) < first + 1 THEN Panic("index out of bounds")
             ELSE Panic("ParseIntError"))
       ELSE OkStat([user |-> p(1).v, nice |-> p(2).v, system |-> p(3).v, idle |-> p(4).v,
                    io_wait |-> p(5).v, irq |-> p(6).v, soft_irq |-> p(7).v,
                    steal_stolen |-> p(8).v, guest |-> p(9).v, guest_nice |-> p(10).v])

read_proc_stat(file) ==
    IF ~file.readable THEN IoErr("io::Error")
    ELSE LET lines == Lines(file.text)
             at == FindCpuLine(lines)
         IN IF at = 0 THEN Panic("unwrap on None")
            ELSE FieldsToStat(SplitWhitespace(lines[at]))

----------------------------------------------------------------------------
(* The /proc/stat texts a read may see.  A text is rendered from a list of  *)
(* line shapes; `shape` is kept beside the text only to state properties,   *)
(* read_proc_stat reads `readable` and `text` alone.                        *)

RECURSIVE Dec(_)
\* decimal rendering of a natural number
Dec(n) ==
    LET d == <<"0", "1", "2", "3", "4", "5", "6", "7", "8", "9">>
    IN IF n < 10 THEN <<d[n + 1]>> ELSE Append(Dec(n \div 10), d[(n % 10) + 1])

DecAll(vals) == [i \in 1..Len(vals) |-> Dec(vals[i])]

RECURSIVE JoinWith(_, _)
JoinWith(toks, sep) ==
    IF toks = <<>> THEN <<>>
    ELSE IF Len(toks) = 1 THEN toks[1]
    ELSE toks[1] \o sep \o JoinWith(Tail(toks), sep)

Shape(lead, label, sep, toks) == [lead |-> lead, label |-> label, sep |-> sep, toks |-> toks]

CpuLabel == <<"c", "p", "u">>

LineShapes ==
    { Shape(<<>>, CpuLabel, <<" ", " ">>, DecAll(<<11, 2, 3, 40, 5, 6, 7, 8, 9, 10>>)),
      Shape(<<>>, CpuLabel, <<" ">>, DecAll(<<21, 22, 23, 24, 25, 26, 27, 28, 29, 30, 77, 88>>)),
      Shape(<<>>, CpuLabel, <<"\t">>, DecAll(<<31, 32, 33, 34, 35, 36, 37, 38, 39, 30>>)),
      Shape(<<" ">>, CpuLabel, <<" ">>, DecAll(<<41, 42, 43, 44, 45, 46, 47, 48, 49, 40>>)),
      Shape(<<>>, CpuLabel \o <<"0">>, <<" ">>, DecAll(<<51, 52, 53, 54, 55, 56, 57, 58, 59, 50>>)),
      Shape(<<>>, CpuLabel, <<" ">>, DecAll(<<61, 62, 63, 64, 65, 66, 67, 68, 69>>)),
      Shape(<<>>, CpuLabel, <<" ">>, DecAll(<<1, 2>>) \o <<<<"x">>>> \o DecAll(<<4, 5, 6, 7, 8, 9, 10>>)),
      Shape(<<>>, CpuLabel, <<" ">>, DecAll(<<1, 2, 3>>) \o <<<<"-", "4">>>> \o DecAll(<<5, 6, 7, 8, 9, 10>>)),
      Shape(<<>>, CpuLabel, <<" ">>, <<>>),
      Shape(<<>>, CpuLabel, <<>>, <<>>),
      Shape(<<>>, <<"i", "n", "t", "r">>, <<" ">>, DecAll(<<5>>)) }

RenderLine(sh) == sh.lead \o sh.label \o sh.sep \o JoinWith(sh.toks, <<" ">>)

RECURSIVE RenderText(_)
RenderText(shapes) ==
    IF shapes = <<>> THEN <<>> ELSE RenderLine(Head(shapes)) \o <<"\n">> \o RenderText(Tail(shapes))

RECURSIVE SeqsUpTo(_, _)
\* all sequences over S of length at most n
SeqsUpTo(S, n) ==
    IF n = 0 THEN {<<>>}
    ELSE LET shorter == SeqsUpTo(S, n - 1)
         IN shorter \cup {Append(q, x) : q \in shorter, x \in S}

Readable(shapes) == [readable |-> TRUE, text |-> RenderText(shapes), shape |-> shapes]
Unreadable == [readable |-> FALSE, text |-> <<>>, shape |-> <<>>]

ProcStatInputs == {Unreadable} \cup {Readable(q) : q \in SeqsUpTo(LineShapes, MaxLines)}

NoRet == [kind |-> "none", stat |-> NoStat, msg |-> ""]
NoCalc == [kind |-> "none", h |-> 0]
NoResult == [code |-> 0, body |-> <<>>, error |-> <<>>]
NoHost == [none |-> TRUE]

----------------------------------------------------------------------------
(* Specification of one call of Stat::read_proc_stat *)

InitRead ==
    /\ pc = "call"
    /\ proc_stat \in ProcStatInputs
    /\ overflow_checks = FALSE
    /\ prev_stat = NoStat /\ current_stat = NoStat
    /\ cpu_usage = NoCalc /\ result = NoResult
    /\ stdout = <<>> /\ tick = 0
    /\ host = NoHost
    /\ ret = NoRet
    /\ calls = <<>>

ReadCall ==
    /\ pc = "call"
    /\ ret' = read_proc_stat(proc_stat)
    /\ pc' = "returned"
    /\ UNCHANGED <<proc_stat, overflow_checks, prev_stat, current_stat, cpu_usage,
                   result, stdout, tick, host, calls>>

NextRead == ReadCall

SpecRead == InitRead /\ [][NextRead]_vars

----------------------------------------------------------------------------
(* Properties of Stat::read_proc_stat, stated on the shape of the text *)

\* index of the first element of `shapes` that satisfies P, 0 if none
FirstShape(shapes, P(_)) ==
    LET hits == {i \in 1..Len(shapes) : P(shapes[i])}
    IN IF hits = {} THEN 0 ELSE CHOOSE i \in hits : \A j \in hits : i <= j

\* the line's first whitespace-delimited token is exactly `cpu`
FirstTokenIsCpu(sh) == sh.label = CpuLabel

\* the line begins with the four characters `cpu `
BeginsCpuSpace(sh) == sh.lead = <<>> /\ sh.label = CpuLabel /\ sh.sep /= <<>> /\ sh.sep[1] = " "

IsNatToken(tok) == tok /= <<>> /\ \A i \in 1..Len(tok) : IsDigit(tok[i])

TenCounters(sh) == Len(sh.toks) >= 10 /\ \A k \in 1..10 : IsNatToken(sh.toks[k])

\* the ten counters of a line, in the order of /proc/stat
CountersOf(sh) ==
    LET v(k) == DigitsValue(sh.toks[k], 0)
    IN [user |-> v(1), nice |-> v(2), system |-> v(3), idle |-> v(4), io_wait |-> v(5),
        irq |-> v(6), soft_irq |-> v(7), steal_stolen |-> v(8), guest |-> v(9),
        guest_nice |-> v(10)]

\* C7: read_proc_stat reports every failure as an error value: an unreadable source,
\* a text without aggregate `cpu` line, an aggregate line with fewer than 10 fields or
\* with a field that is no non-negative integer all make it return Err, and it never
\* returns counters in these cases.
C7_FailureIsReturnedError ==
    pc = "returned" =>
        LET at == FirstShape(proc_stat.shape, FirstTokenIsCpu)
            malformed == ~proc_stat.readable \/ at = 0 \/ ~TenCounters(proc_stat.shape[at])
        IN malformed => ret.kind = "err"

\* C8 as stated: the line selected is the first one whose first whitespace-delimited
\* token is `cpu`, whatever whitespace surrounds the label; its next 10 tokens are the
\* counters returned.
C8_FirstTokenCpuSelected ==
    (pc = "returned" /\ proc_stat.readable) =>
        LET at == FirstShape(proc_stat.shape, FirstTokenIsCpu)
        IN (at /= 0 /\ TenCounters(proc_stat.shape[at]))
               => ret = OkStat(CountersOf(proc_stat.shape[at]))

\* C8 amended: the line selected is the first one that begins with the four characters
\* `cpu ` (no whitespace before the label, a space right after it); when its next 10
\* tokens are numbers they are returned positionally as user .. guest_nice, later
\* tokens are ignored; counters are returned in no other case.
C8_FirstCpuSpaceLineSelected ==
    (pc = "returned" /\ proc_stat.readable) =>
        LET at == FirstShape(proc_stat.shape, BeginsCpuSpace)
        IN /\ (at /= 0 /\ TenCounters(proc_stat.shape[at]))
                  => ret = OkStat(CountersOf(proc_stat.shape[at]))
           /\ ret.kind = "ok" => (at /= 0 /\ TenCounters(proc_stat.shape[at]))

\* a per-core line comes first and the aggregate line carries 12 tokens
C8_Witness ==
    /\ pc = "returned"
    /\ Len(proc_stat.shape) = 2
    /\ proc_stat.shape[1].label = CpuLabel \o <<"0">>
    /\ Len(proc_stat.shape[2].toks) = 12
    /\ ret.kind = "ok" /\ ret.stat.user = 21 /\ ret.stat.guest_nice = 30

----------------------------------------------------------------------------
(* u64 and f64 arithmetic.                                                  *)
(*                                                                          *)
(* TLC's integers are narrower than 64 bits.  A u64 x is therefore  *)
(* held as the representative of x modulo 2^64 that is nearest to zero: x   *)
(* itself while x < 2^63, and x - 2^64 (a negative number) otherwise.  A    *)
(* wrapped difference 2^64 - k is held as -k.                               *)
(*                                                                          *)
(* An f64 is held as [m, e]: m a 53-bit integer (2^52 <= m < 2^53) in four  *)
(* limbs of 18 bits, least significant first, and the value is              *)
(* m * 2^(e - 52).  Division, multiplication and decimal formatting round   *)
(* to nearest, ties to even, as IEEE 754 and Rust's `{:.2}` do.             *)

\* the value of the u64 held as x is below the value of the u64 held as y
U64Less(x, y) ==
    IF (x >= 0) = (y >= 0) THEN x < y ELSE x >= 0

\* a - b on u64: `overflow` is what an overflow-checked build panics on,
\* `v` is what a wrapping build computes
U64Sub(a, b) == [v |-> a - b, overflow |-> U64Less(a, b)]

Limb == 2^18

LimbAt(L, j) == IF j <= Len(L) THEN L[j] ELSE 0

RECURSIVE BitLenInt(_)
BitLenInt(n) == IF n = 0 THEN 0 ELSE 1 + BitLenInt(n \div 2)

BitLen(L) ==
    LET nz == {j \in 1..Len(L) : L[j] /= 0}
        top == CHOOSE j \in nz : \A i \in nz : i <= j
    IN IF nz = {} THEN 0 ELSE 18 * (top - 1) + BitLenInt(L[top])

\* L * c for a small c
MulSmall(L, c) ==
    LET t1 == L[1] * c
        t2 == L[2] * c + (t1 \div Limb)
        t3 == L[3] * c + (t2 \div Limb)
        t4 == L[4] * c + (t3 \div Limb)
    IN <<t1 % Limb, t2 % Limb, t3 % Limb, t4>>

\* L + 1
Inc(L) ==
    LET c1 == IF L[1] + 1 = Limb THEN 1 ELSE 0
        c2 == IF L[2] + c1 = Limb THEN 1 ELSE 0
        c3 == IF L[3] + c2 = Limb THEN 1 ELSE 0
    IN <<(L[1] + 1) % Limb, (L[2] + c1) % Limb, (L[3] + c2) % Limb, L[4] + c3>>

\* floor(L / 2^sh)
ShrFloor(L, sh) ==
    LET w == sh \div 18
        b == sh % 18
    IN [i \in 1..4 |-> (LimbAt(L, i + w) \div 2^b) + (LimbAt(L, i + w + 1) % 2^b) * 2^(18 - b)]

BitAt(L, i) == (LimbAt(L, (i \div 18) + 1) \div 2^(i % 18)) % 2

\* some bit of L below bit n is set
LowBitsSet(L, n) ==
    \/ \E j \in 1..(n \div 18) : LimbAt(L, j) /= 0
    \/ LimbAt(L, (n \div 18) + 1) % 2^(n % 18) /= 0

\* L / 2^sh rounded to nearest, ties to even (sh >= 1)
ShrRoundEven(L, sh) ==
    LET f == ShrFloor(L, sh)
        guard == BitAt(L, sh - 1) = 1
        sticky == LowBitsSet(L, sh - 1)
    IN IF guard /\ (sticky \/ f[1] % 2 = 1) THEN Inc(f) ELSE f

\* an integer of 53 or 54 bits as an f64 mantissa with its exponent
Normalize(L, e) ==
    IF BitLen(L) = 54 THEN [m |-> ShrFloor(L, 1), e |-> e + 1] ELSE [m |-> L, e |-> e]

\* `x as f64` for a u64: exact below 2^53; 2^64 - k with k <= 1024 is nearer to 2^64
\* than to the next f64 below it (2^64 - 2048), and at k = 1024 the tie goes to 2^64.
\* The result is n * 2^sh with n below 2^13.
F64FromU64(x) ==
    CASE x >= 0 /\ x < 2^13 -> [n |-> x, sh |-> 0]
      [] x < 0 /\ -x <= 1024 -> [n |-> 1, sh |-> 64]

RECURSIVE Log2Up(_, _, _)
Log2Up(p, q, k) == IF q * 2^(k + 1) <= p THEN Log2Up(p, q, k + 1) ELSE k

RECURSIVE Log2Down(_, _, _)
Log2Down(p, q, j) == IF p * 2^j >= q THEN j ELSE Log2Down(p, q, j + 1)

\* a / b on f64, for operands n * 2^sh: long division of the integers to 53 bits,
\* rounded on the remainder; the powers of two only move the exponent
F64Div(a, b) ==
    LET p == a.n
        q == b.n
        k == IF p >= q THEN Log2Up(p, q, 0) ELSE -Log2Down(p, q, 1)
        pn == IF k >= 0 THEN p ELSE p * 2^(-k)
        qn == IF k >= 0 THEN q * 2^k ELSE q
        d3 == (pn * 2^16) \div qn
        r3 == (pn * 2^16) % qn
        d2 == (r3 * Limb) \div qn
        r2 == (r3 * Limb) % qn
        d1 == (r2 * Limb) \div qn
        r1 == (r2 * Limb) % qn
        guard == (2 * r1) \div qn = 1
        sticky == (2 * r1) % qn /= 0
        floor == <<d1, d2, d3, 0>>
        m == IF guard /\ (sticky \/ d1 % 2 = 1) THEN Inc(floor) ELSE floor
    IN Normalize(m, k + a.sh - b.sh)

\* x * 100.0 on f64: the exact product has 59 or 60 bits and is rounded to 53
F64Mul100(x) ==
    LET prod == MulSmall(x.m, 100)
        sh == BitLen(prod) - 53
    IN Normalize(ShrRoundEven(prod, sh), x.e + sh)

UsageValue(h) == [kind |-> "value", h |-> h]
UsageHuge == [kind |-> "huge", h |-> 0]
UsagePanic == [kind |-> "panic", h |-> 0]

\* mutant: the digits after the second decimal are cut off instead of rounded
FormatParse2Truncating(x) ==
    LET scaled == MulSmall(x.m, 100)
        sh == 52 - x.e
    IN IF sh < 30 THEN UsageHuge
       ELSE IF sh > 64 THEN UsageValue(0)
       ELSE UsageValue(ShrFloor(scaled, sh)[1] + Limb * ShrFloor(scaled, sh)[2])

\* format!("{:.2}", x).parse::<f64>(): the decimal with two fractional digits nearest
\* to the exact value of x, ties to the even digit, read back as the f64 nearest to
\* that decimal.  The result is held as h, its number of hundredths; a value of 2^30
\* hundredths or more is held as `huge`.
FormatParse2(x) ==
    LET scaled == MulSmall(x.m, 100)
        sh == 52 - x.e
    IN IF sh < 30 THEN UsageHuge
       ELSE IF sh > 64 THEN UsageValue(0)
       ELSE UsageValue(ShrRoundEven(scaled, sh)[1] + Limb * ShrRoundEven(scaled, sh)[2])

----------------------------------------------------------------------------
(* CpuUsageInfo::get_total_time and Stat::calculate_cpu_usage *)

get_total_time(info) ==
    info.user + info.nice + info.system + info.idle + info.io_wait + info.irq
        + info.soft_irq + info.steal_stolen + info.guest + info.guest_nice

\* `checked` is the build profile: with overflow checks a u64 subtraction below zero
\* panics, without them it wraps
calculate_cpu_usage(current, prev, checked) ==
    LET current_total_time == get_total_time(current)
        prev_total_time == get_total_time(prev)
        left_time == U64Sub(current.idle, prev.idle)
        total_diff == U64Sub(current_total_time, prev_total_time)
        usage_time == U64Sub(total_diff.v, left_time.v)
        usage_total_time == U64Sub(current_total_time, prev_total_time)
    IN IF checked /\ (left_time.overflow \/ total_diff.overflow \/ usage_time.overflow)
       THEN UsagePanic
       ELSE IF usage_time.v /= 0 /\ usage_total_time.v /= 0
            THEN FormatParse2(F64Mul100(F64Div(F64FromU64(usage_time.v),
                                                F64FromU64(usage_total_time.v))))
            ELSE UsageValue(0)

----------------------------------------------------------------------------
(* Specification of one call of Stat::calculate_cpu_usage.  The previous    *)
(* snapshot is one of a few base snapshots, the current one differs from it *)
(* by a step of user, idle and io_wait, forward or backward (a rollback).   *)

Stat10(u, n, s, i, w, q, sq, st, g, gn) ==
    [user |-> u, nice |-> n, system |-> s, idle |-> i, io_wait |-> w, irq |-> q,
     soft_irq |-> sq, steal_stolen |-> st, guest |-> g, guest_nice |-> gn]

BaseStats ==
    { Stat10(5, 1, 2, 4, 1, 0, 1, 0, 0, 0),
      Stat10(1000, 200, 300, 5000, 50, 10, 5, 0, 0, 0) }

Stepped(s, du, di, dw) ==
    [s EXCEPT !.user = @ + du, !.idle = @ + di, !.io_wait = @ + dw]

StatPairs ==
    { <<Stepped(s, du, di, dw), s>> :
          s \in BaseStats, du \in (-MaxBack)..MaxTick, di \in (-MaxBack)..MaxTick, dw \in {0, 1} }
    \cup { <<Stepped(s, 100, 50, 0), s>> : s \in BaseStats }
    \cup { <<Stepped(s, 97, 703, 0), s>> : s \in BaseStats }

InitCalc ==
    /\ pc = "call"
    /\ \E pair \in StatPairs : current_stat = pair[1] /\ prev_stat = pair[2]
    /\ overflow_checks \in BOOLEAN
    /\ proc_stat = Unreadable
    /\ cpu_usage = NoCalc /\ result = NoResult
    /\ stdout = <<>> /\ tick = 0
    /\ host = NoHost
    /\ ret = NoRet
    /\ calls = <<>>

CalcCall ==
    /\ pc = "call"
    /\ cpu_usage' = calculate_cpu_usage(current_stat, prev_stat, overflow_checks)
    /\ pc' = "returned"
    /\ UNCHANGED <<proc_stat, overflow_checks, prev_stat, current_stat,
                   result, stdout, tick, host, ret, calls>>

NextCalc == CalcCall

SpecCalc == InitCalc /\ [][NextCalc]_vars

----------------------------------------------------------------------------
(* Properties of Stat::calculate_cpu_usage, stated on the exact deltas *)

TotalOf(s) ==
    s.user + s.nice + s.system + s.idle + s.io_wait + s.irq + s.soft_irq
        + s.steal_stolen + s.guest + s.guest_nice

total_delta == TotalOf(current_stat) - TotalOf(prev_stat)
idle_delta == current_stat.idle - prev_stat.idle
used_delta == total_delta - idle_delta

\* the exact ratio used_delta / total_delta * 100, in hundredths, rounded half away from zero
HalfAwayHundredths == (20000 * used_delta + total_delta) \div (2 * total_delta)

\* the exact ratio lies midway between two hundredths
ExactTie == (20000 * used_delta) % (2 * total_delta) = total_delta

IsPowerOfTwo(n) == n >= 1 /\ 2^(BitLenInt(n) - 1) = n

\* C1: when total_delta <= 0 or used_delta <= 0 (a counter reset or rollback included)
\* the call returns exactly 0.0, with no arithmetic fault and no wrapped-around value.
C1_DegenerateIsZero ==
    (pc = "returned" /\ (total_delta <= 0 \/ used_delta <= 0)) => cpu_usage = UsageValue(0)

\* C2: when total_delta > 0 and used_delta > 0 the call returns a value between 0.0 and
\* 100.0 with at most 2 decimal places, also when idle decreased while the total grew.
C2_WithinPercentRange ==
    (pc = "returned" /\ total_delta > 0 /\ used_delta > 0)
        => (cpu_usage.kind = "value" /\ cpu_usage.h >= 0 /\ cpu_usage.h <= 10000)

\* C3 as stated: when both deltas are positive the result is the exact ratio rounded
\* once, half away from zero, to 2 decimal places.
C3_RoundedHalfAwayFromZero ==
    (pc = "returned" /\ total_delta > 0 /\ used_delta > 0)
        => cpu_usage = UsageValue(HalfAwayHundredths)

\* C3 amended: when both deltas are positive the call either panics (only in an
\* overflow-checked build, and only when idle decreased) or returns the hundredth
\* nearest to the exact ratio; an exact tie is not rounded away from zero but decided by
\* the f64 product under round-half-to-even: it yields one of the two neighbouring
\* hundredths, the even one when total_delta is a power of two.
C3_RoundedToNearestTiesByF64 ==
    (pc = "returned" /\ total_delta > 0 /\ used_delta > 0) =>
        IF overflow_checks /\ idle_delta < 0
        THEN cpu_usage = UsagePanic
        ELSE /\ cpu_usage.kind = "value"
             /\ ~ExactTie => cpu_usage.h = HalfAwayHundredths
             /\ ExactTie => cpu_usage.h \in {HalfAwayHundredths - 1, HalfAwayHundredths}
             /\ (ExactTie /\ IsPowerOfTwo(total_delta)) => cpu_usage.h % 2 = 0

\* used_delta = 1 of total_delta = 32 is 3.125 exactly and comes out as 3.12
C3_Witness ==
    /\ pc = "returned"
    /\ used_delta = 1 /\ total_delta = 32
    /\ cpu_usage = UsageValue(312)

----------------------------------------------------------------------------
(* The shell behind Stat::get_command_output: `sh -c <command>` on a host   *)
(* with the environment variable USER and a passwd database.  A call is     *)
(* logged as [op |-> "sh", cmd |-> <command>].                              *)

EchoUser == <<"e", "c", "h", "o", " ", "$", "U", "S", "E", "R">>
GetentPasswd == <<"g", "e", "t", "e", "n", "t", " ", "p", "a", "s", "s", "w", "d", " ">>

Lookup(op) == [op |-> op, cmd |-> <<>>]
ShCall(command) == [op |-> "sh", cmd |-> command]

RECURSIVE Flatten(_)
Flatten(ss) == IF ss = <<>> THEN <<>> ELSE Head(ss) \o Flatten(Tail(ss))

\* parameter expansion and field splitting of one unquoted word
ExpandWord(w, h) == IF w = <<"$", "U", "S", "E", "R">> THEN SplitWhitespace(h.USER) ELSE <<w>>

\* one passwd entry as getent prints it
PasswdLine(entry) == JoinWith(entry, <<":">>) \o <<"\n">>

\* `getent passwd [key ...]`: without key the whole database, status 0; with keys the
\* entries found, status 2 when a key is not found; status 127 when getent is missing
Getent(args, h) ==
    LET keys == Tail(args)
        db == h.passwd
        found(k) == {i \in 1..Len(db) : db[i][1] = k}
        line(k) == IF found(k) = {} THEN <<>>
                   ELSE PasswdLine(db[CHOOSE i \in found(k) : \A j \in found(k) : i <= j])
    IN IF ~h.getent_ok THEN [status |-> 127, out |-> <<>>]
       ELSE IF args = <<>> \/ Head(args) /= <<"p", "a", "s", "s", "w", "d">>
            THEN [status |-> 1, out |-> <<>>]
       ELSE IF keys = <<>>
            THEN [status |-> 0, out |-> Flatten([i \in 1..Len(db) |-> PasswdLine(db[i])])]
       ELSE [status |-> IF \E i \in 1..Len(keys) : found(keys[i]) = {} THEN 2 ELSE 0,
             out |-> Flatten([i \in 1..Len(keys) |-> line(keys[i])])]

\* one simple command
RunWords(words, h) ==
    IF words = <<>> THEN [status |-> 0, out |-> <<>>]
    ELSE IF Head(words) = <<"e", "c", "h", "o">>
         THEN [status |-> 0, out |-> JoinWith(Tail(words), <<" ">>) \o <<"\n">>]
    ELSE IF Head(words) = <<"g", "e", "t", "e", "n", "t">> THEN Getent(Tail(words), h)
    ELSE [status |-> 127, out |-> <<>>]

RECURSIVE RunLines(_, _, _)
\* the command lines of a script in turn: outputs concatenated, status of the last command
RunLines(lines, h, acc) ==
    IF lines = <<>> THEN acc
    ELSE LET raw == SplitWhitespace(Head(lines))
             words == Flatten([i \in 1..Len(raw) |-> ExpandWord(raw[i], h)])
             r == RunWords(words, h)
         IN RunLines(Tail(lines), h,
                     IF raw = <<>> THEN acc ELSE [status |-> r.status, out |-> acc.out \o r.out])

Sh(command, h) == RunLines(SplitOn(command, "\n"), h, [status |-> 0, out |-> <<>>])

\* Stat::get_command_output; `nth` is the number of this spawn of sh (1 or 2), which
\* fails (Err) when the host says so
get_command_output(command, h, nth) ==
    IF ~h.sh_ok[nth] THEN <<>>
    ELSE LET output == Sh(command, h)
         IN IF output.status = 0 THEN output.out ELSE <<>>

\* Stat::get_current_login_username
get_current_login_username(h) ==
    LET content == get_command_output(EchoUser, h, 1)
    IN IF content = <<>> THEN <<>> ELSE content

\* Stat::get_user_home_dir: [out |-> the directory, cmds |-> the commands run]
get_user_home_dir(h) ==
    LET username == get_current_login_username(h)
        command == GetentPasswd \o username
        content == get_command_output(command, h, 2)
        fields == SplitOn(Trim(content), ":")
    IN IF username = <<>> THEN [out |-> <<>>, cmds |-> <<ShCall(EchoUser)>>]
       ELSE [out |-> IF content /= <<>> /\ Len(fields) >= 6 THEN fields[6] ELSE <<>>,
             cmds |-> <<ShCall(EchoUser), ShCall(command)>>]

----------------------------------------------------------------------------
(* Stat::get_cup_info, Stat::get_mem_info, Stat::get_system_info and the    *)
(* responses of prepare.rs                                                  *)

\* crate::error::Error::convert_string(msg): the message surfaced for a failed lookup
ErrorConvertString(msg) == msg

\* crate::error::Error::Error(msg).to_string()
ErrorToString(msg) == msg

DefaultOs == [os_type |-> "", host_name |-> "", cpu_num |-> 0]
DefaultCpuInfo == [physics_core_num |-> 0, virtual_core_num |-> 0, usage |-> UsageValue(0)]
DefaultMemInfo == [mem_total |-> 0, mem_available |-> 0]

\* SystemInfo::default()
DefaultSystemInfo ==
    [os |-> DefaultOs, disk_list |-> <<>>, cpu_info |-> DefaultCpuInfo,
     mem_info |-> DefaultMemInfo, home_dir |-> <<>>]

\* serde_json::to_value(&system_info): an object with the renamed keys
ToValue(si) ==
    [os |-> si.os, diskInfo |-> si.disk_list, cpuInfo |-> si.cpu_info,
     memInfo |-> si.mem_info, homeDir |-> si.home_dir]

\* serde_json::Value::String(String::new())
EmptyStringValue == <<>>

get_success_response(body) == [code |-> 200, body |-> body, error |-> ""]

get_error_response(error) == [code |-> 500, body |-> EmptyStringValue, error |-> error]

\* mutant: the error response keeps its empty body
get_system_info_error_without_body(system_info, err) == get_error_response(err)

get_system_info_error(system_info, err) ==
    [get_error_response(err) EXCEPT !.body = ToValue(system_info)]

\* procfs::CpuInfo::current() and the two counts taken from it
get_cup_info(h) ==
    LET ci == h.cpuinfo
        cores == {f \in ci.fields : f[1] = "cpu cores"}
        tok == IF cores = {} THEN <<"0">> ELSE (CHOOSE f \in cores : TRUE)[2]
    IN IF ~ci.ok THEN [ok |-> FALSE, err |-> ErrorConvertString(ci.err), info |-> DefaultCpuInfo]
       ELSE [ok |-> TRUE, err |-> "",
             info |-> [physics_core_num |-> IF ci.fields /= {} /\ ParseU64(tok).ok
                                            THEN ParseU64(tok).v ELSE 0,
                       virtual_core_num |-> ci.cpus,
                       usage |-> UsageValue(0)]]

\* procfs::Meminfo::current(); mem_available is optional in /proc/meminfo
get_mem_info(h) ==
    LET mi == h.meminfo
    IN IF ~mi.ok THEN [ok |-> FALSE, err |-> ErrorToString(mi.err), info |-> DefaultMemInfo]
       ELSE [ok |-> TRUE, err |-> "",
             info |-> [mem_total |-> mi.mem_total,
                       mem_available |-> IF mi.has_available THEN mi.mem_available ELSE 0]]

\* Stat::get_system_info: [res |-> the HttpResponse, log |-> the lookups performed]
get_system_info(usage, h) ==
    LET si1 == [DefaultSystemInfo EXCEPT !.os = h.os]
        si2 == [si1 EXCEPT !.disk_list = h.disks]
        cpu == get_cup_info(h)
        si3 == [si2 EXCEPT !.cpu_info = [cpu.info EXCEPT !.usage = usage]]
        mem == get_mem_info(h)
        si4 == [si3 EXCEPT !.mem_info = mem.info]
        home == get_user_home_dir(h)
        si5 == [si4 EXCEPT !.home_dir = home.out]
        log3 == <<Lookup("os"), Lookup("disks"), Lookup("cpuinfo")>>
    IN IF ~cpu.ok THEN [res |-> get_system_info_error(si2, cpu.err), log |-> log3]
       ELSE IF ~mem.ok
            THEN [res |-> get_system_info_error(si3, mem.err),
                  log |-> Append(log3, Lookup("meminfo"))]
       ELSE [res |-> get_success_response(ToValue(si5)),
             log |-> Append(log3, Lookup("meminfo")) \o home.cmds]

\* prepare::to_result: the JSON object of the response, its three members in the
\* order serde writes them
to_result(response) ==
    << <<"code", response.code>>, <<"body", response.body>>, <<"error", response.error>> >>

----------------------------------------------------------------------------
(* Hosts *)

PwRoot == << <<"r">>, <<"x">>, <<"0">>, <<"0">>, <<"R">>, <<"/", "r">>, <<"/", "s">> >>
PwAl == << <<"a", "l">>, <<"x">>, <<"1">>, <<"1">>, <<"A">>, <<"/", "a", "l">>, <<"/", "s">> >>
PwBo == << <<"b", "o">>, <<"x">>, <<"2">>, <<"2">>, <<"B">> >>
PwCy == << <<"c", "y">>, <<"x">>, <<"3">>, <<"3">>, <<"C">>, <<"/", "c", "y">> >>

PasswdDbs == { <<>>, <<PwRoot, PwAl, PwBo, PwCy>>, <<PwCy, PwAl>> }

\* USER: unset, set to the empty string, or a login name (one of them unknown to passwd)
Users ==
    { [set |-> FALSE, value |-> <<>>], [set |-> TRUE, value |-> <<>>],
      [set |-> TRUE, value |-> <<"a", "l">>], [set |-> TRUE, value |-> <<"b", "o">>],
      [set |-> TRUE, value |-> <<"c", "y">>], [set |-> TRUE, value |-> <<"z", "z">>] }

CpuInfos ==
    { [ok |-> FALSE, err |-> "cpuinfo unreadable", fields |-> {}, cpus |-> 0],
      [ok |-> TRUE, err |-> "", fields |-> {<<"cpu cores", <<"4">>>>, <<"vendor_id", <<"x">>>>}, cpus |-> 8],
      [ok |-> TRUE, err |-> "", fields |-> {<<"vendor_id", <<"x">>>>}, cpus |-> 2],
      [ok |-> TRUE, err |-> "", fields |-> {}, cpus |-> 0] }

MemInfos ==
    { [ok |-> FALSE, err |-> "meminfo unreadable", mem_total |-> 0, has_available |-> FALSE, mem_available |-> 0],
      [ok |-> TRUE, err |-> "", mem_total |-> 16, has_available |-> TRUE, mem_available |-> 9],
      [ok |-> TRUE, err |-> "", mem_total |-> 16, has_available |-> FALSE, mem_available |-> 0] }

LinuxOs == [os_type |-> "Linux", host_name |-> "box", cpu_num |-> 8]
OneDisk == <<[type_ |-> "SSD", name |-> "sda", mount_point |-> "/"]>>

Host(u, db, sh, ge, ci, mi, os, disks) ==
    [USER |-> u.value, user_set |-> u.set, passwd |-> db, sh_ok |-> sh, getent_ok |-> ge,
     cpuinfo |-> ci, meminfo |-> mi, os |-> os, disks |-> disks]

ShOutcomes == { <<TRUE, TRUE>>, <<FALSE, TRUE>>, <<TRUE, FALSE>> }

\* hosts that differ in what decides the home directory
HomeHosts ==
    { Host(u, db, sh, ge, CHOOSE ci \in CpuInfos : ci.cpus = 8,
           CHOOSE mi \in MemInfos : mi.has_available, LinuxOs, OneDisk) :
          u \in Users, db \in PasswdDbs, sh \in ShOutcomes, ge \in BOOLEAN }

\* hosts that differ in what decides the assembly
InfoHosts ==
    { Host(u, <<PwRoot, PwAl, PwBo, PwCy>>, <<TRUE, TRUE>>, TRUE, ci, mi, os, disks) :
          u \in {x \in Users : x.value \in {<<>>, <<"a", "l">>}}, ci \in CpuInfos, mi \in MemInfos,
          os \in {LinuxOs, DefaultOs}, disks \in {<<>>, OneDisk} }

UsageInputs == {UsageValue(0), UsageValue(6667), UsageValue(20000), UsageHuge}

----------------------------------------------------------------------------
(* Specification of one call of Stat::get_user_home_dir *)

InitHome ==
    /\ pc = "call"
    /\ host \in HomeHosts
    /\ proc_stat = Unreadable
    /\ overflow_checks = FALSE
    /\ prev_stat = NoStat /\ current_stat = NoStat
    /\ cpu_usage = NoCalc /\ result = NoResult
    /\ stdout = <<>> /\ tick = 0
    /\ ret = <<>>
    /\ calls = <<>>

HomeCall ==
    /\ pc = "call"
    /\ \E r \in {get_user_home_dir(host)} :
        /\ ret' = r.out
        /\ calls' = calls \o r.cmds
    /\ pc' = "returned"
    /\ UNCHANGED <<proc_stat, overflow_checks, prev_stat, current_stat, cpu_usage,
                   result, stdout, tick, host>>

NextHome == HomeCall

SpecHome == InitHome /\ [][NextHome]_vars

----------------------------------------------------------------------------
(* Specification of one call of Stat::get_system_info *)

InitInfo ==
    /\ pc = "call"
    /\ host \in InfoHosts
    /\ cpu_usage \in UsageInputs
    /\ proc_stat = Unreadable
    /\ overflow_checks = FALSE
    /\ prev_stat = NoStat /\ current_stat = NoStat
    /\ result = NoResult
    /\ stdout = <<>> /\ tick = 0
    /\ ret = NoRet
    /\ calls = <<>>

InfoCall ==
    /\ pc = "call"
    /\ \E r \in {get_system_info(cpu_usage, host)} :
        /\ result' = r.res
        /\ calls' = calls \o r.log
    /\ pc' = "returned"
    /\ UNCHANGED <<proc_stat, overflow_checks, prev_stat, current_stat, cpu_usage,
                   stdout, tick, host, ret>>

NextInfo == InfoCall

SpecInfo == InitInfo /\ [][NextInfo]_vars

----------------------------------------------------------------------------
(* Properties of Stat::get_user_home_dir and Stat::get_system_info *)

\* the directory-lookup command was run
LookupCommandRan == \E i \in 1..Len(calls) : calls[i].op = "sh" /\ StartsWith(calls[i].cmd, GetentPasswd)

\* the passwd entries of the login name in USER
UserEntries == {i \in 1..Len(host.passwd) : host.passwd[i][1] = host.USER}

UserEntry == host.passwd[CHOOSE i \in UserEntries : \A j \in UserEntries : i <= j]

\* C10: the home directory is the empty string when the login name is empty (USER
\* unset or empty, and then no lookup command is run), when the lookup command cannot
\* be executed or exits non-zero, and when its output has fewer than 6 colon-separated
\* fields; otherwise it is the 6th field of the lookup output for that name.
C10_HomeDirResolution ==
    pc = "returned" =>
        /\ host.USER = <<>> => (ret = <<>> /\ ~LookupCommandRan)
        /\ ~host.sh_ok[1] => (ret = <<>> /\ ~LookupCommandRan)
        /\ (host.USER /= <<>> /\ host.sh_ok[1]) =>
               IF ~host.sh_ok[2] \/ ~host.getent_ok \/ UserEntries = {} THEN ret = <<>>
               ELSE IF Len(UserEntry) < 6 THEN ret = <<>>
               ELSE ret = UserEntry[6]

CpuLookupOk == host.cpuinfo.ok
MemLookupOk == host.meminfo.ok

LookupsDone == [i \in 1..Len(calls) |-> calls[i].op]

\* C9: code 200 with an empty error exactly when the core-count and the memory lookup
\* both succeed, and then body.cpuInfo.usage is the usage argument; otherwise code 500,
\* a non-empty error and a non-empty body that holds the OS identity and the disk list,
\* and the cpu info with the given usage when it is the memory lookup that failed; no
\* lookup is performed after the failing one.
C9_AssemblyOutcome ==
    pc = "returned" =>
        /\ (result.code = 200 /\ result.error = "") <=> (CpuLookupOk /\ MemLookupOk)
        /\ (CpuLookupOk /\ MemLookupOk) => result.body.cpuInfo.usage = cpu_usage
        /\ ~(CpuLookupOk /\ MemLookupOk) =>
               /\ result.code = 500 /\ result.error /= ""
               /\ result.body /= EmptyStringValue
               /\ result.body.os = host.os /\ result.body.diskInfo = host.disks
        /\ (CpuLookupOk /\ ~MemLookupOk) =>
               /\ result.body.cpuInfo.usage = cpu_usage
               /\ result.body.cpuInfo.virtual_core_num = host.cpuinfo.cpus
               /\ LookupsDone = <<"os", "disks", "cpuinfo", "meminfo">>
        /\ ~CpuLookupOk => LookupsDone = <<"os", "disks", "cpuinfo">>

\* the memory lookup fails after the cpu info was filled in
C9_Witness ==
    /\ pc = "returned"
    /\ CpuLookupOk /\ ~MemLookupOk
    /\ cpu_usage = UsageValue(6667)
    /\ result.code = 500 /\ result.error = "meminfo unreadable"
    /\ result.body.cpuInfo = [physics_core_num |-> 4, virtual_core_num |-> 8, usage |-> UsageValue(6667)]
    /\ result.body.os = LinuxOs /\ result.body.diskInfo = OneDisk

----------------------------------------------------------------------------
(* main: the sampling loop.  Each step of the loop body is one action, so   *)
(* that the order of read, estimate, assemble, print and store is visible.  *)
(* `calls` is the history of these steps: [op, tick, a, b].                 *)

Event(op, n, a, b) == [op |-> op, tick |-> n, a |-> a, b |-> b]

\* the line of /proc/stat that carries the counters s
StatShape(s) ==
    Shape(<<>>, CpuLabel, <<" ", " ">>,
          DecAll(<<s.user, s.nice, s.system, s.idle, s.io_wait, s.irq, s.soft_irq,
                   s.steal_stolen, s.guest, s.guest_nice>>))

\* counters a read of the loop may find: a first snapshot, a later one, one whose idle
\* went back while the total grew, and one after a reset
MainStats ==
    { Stat10(5, 1, 2, 4, 1, 0, 1, 0, 0, 0),
      Stat10(7, 1, 2, 5, 1, 0, 1, 0, 0, 0),
      Stat10(9, 1, 2, 3, 1, 0, 1, 0, 0, 0),
      Stat10(1, 0, 0, 1, 0, 0, 0, 0, 0, 0) }

MainFiles ==
    { Readable(<<Shape(<<>>, <<"i", "n", "t", "r">>, <<" ">>, DecAll(<<5>>)), StatShape(s)>>) :
          s \in MainStats }
    \cup { Unreadable,
           Readable(<<Shape(<<>>, CpuLabel \o <<"0">>, <<" ">>, DecAll(<<1, 2, 3, 4, 5, 6, 7, 8, 9, 10>>))>>) }

MainHosts ==
    { Host([set |-> TRUE, value |-> <<"a", "l">>], <<PwRoot, PwAl>>, <<TRUE, TRUE>>, TRUE,
           ci, mi, LinuxOs, OneDisk) :
          ci \in {c \in CpuInfos : ~c.ok \/ c.cpus = 8}, mi \in {m \in MemInfos : ~m.has_available} }

Init ==
    /\ pc = "start"
    /\ overflow_checks \in BOOLEAN
    /\ proc_stat = Unreadable
    /\ prev_stat = NoStat /\ current_stat = NoStat
    /\ cpu_usage = NoCalc /\ result = NoResult
    /\ stdout = <<>> /\ tick = 0
    /\ host = NoHost
    /\ ret = NoRet
    /\ calls = <<>>

\* let mut prev_stat = Stat::read_proc_stat().unwrap();
StartupRead ==
    /\ pc = "start"
    /\ \E f \in MainFiles :
        \E r \in {read_proc_stat(f)} :
           /\ proc_stat' = f
           /\ ret' = r
           /\ IF r.kind = "ok"
              THEN /\ prev_stat' = r.stat
                   /\ pc' = "sleep"
                   /\ calls' = Append(calls, Event("read", 0, r.stat, NoStat))
              ELSE /\ prev_stat' = prev_stat
                   /\ pc' = "crashed"
                   /\ calls' = Append(calls, Event("read_failed", 0, NoStat, NoStat))
    /\ UNCHANGED <<overflow_checks, current_stat, cpu_usage, result, stdout, tick, host>>

\* thread::sleep(Duration::from_secs(1)): a new iteration begins
Sleep ==
    /\ pc = "sleep"
    /\ tick < MaxLoops
    /\ tick' = tick + 1
    /\ pc' = "read"
    /\ UNCHANGED <<proc_stat, overflow_checks, prev_stat, current_stat, cpu_usage,
                   result, stdout, host, ret, calls>>

\* mutant: a failed read is ignored and the loop goes on with the stale counters
ReadIgnoringFailure ==
    /\ pc = "read"
    /\ \E f \in MainFiles :
        \E r \in {read_proc_stat(f)} :
           /\ proc_stat' = f
           /\ ret' = r
           /\ current_stat' = IF r.kind = "ok" THEN r.stat ELSE prev_stat
           /\ pc' = "calc"
           /\ calls' = Append(calls, Event(IF r.kind = "ok" THEN "read" ELSE "read_failed",
                                            tick, current_stat', NoStat))
    /\ UNCHANGED <<overflow_checks, prev_stat, cpu_usage, result, stdout, tick, host>>

\* let current_stat = Stat::read_proc_stat().unwrap();
Read ==
    /\ pc = "read"
    /\ \E f \in MainFiles :
        \E r \in {read_proc_stat(f)} :
           /\ proc_stat' = f
           /\ ret' = r
           /\ IF r.kind = "ok"
              THEN /\ current_stat' = r.stat
                   /\ pc' = "calc"
                   /\ calls' = Append(calls, Event("read", tick, r.stat, NoStat))
              ELSE /\ current_stat' = current_stat
                   /\ pc' = "crashed"
                   /\ calls' = Append(calls, Event("read_failed", tick, NoStat, NoStat))
    /\ UNCHANGED <<overflow_checks, prev_stat, cpu_usage, result, stdout, tick, host>>

\* mutant: the operands are passed in the order of get_cup_used (previous first)
CalcSwapped ==
    /\ pc = "calc"
    /\ cpu_usage' = calculate_cpu_usage(prev_stat, current_stat, overflow_checks)
    /\ pc' = IF cpu_usage'.kind = "panic" THEN "crashed" ELSE "info"
    /\ calls' = Append(calls, Event("estimate", tick, prev_stat, current_stat))
    /\ UNCHANGED <<proc_stat, overflow_checks, prev_stat, current_stat, result, stdout,
                   tick, host, ret>>

\* let cpu_usage = Stat::calculate_cpu_usage(current_stat.clone(), prev_stat.clone());
Calc ==
    /\ pc = "calc"
    /\ cpu_usage' = calculate_cpu_usage(current_stat, prev_stat, overflow_checks)
    /\ pc' = IF cpu_usage'.kind = "panic" THEN "crashed" ELSE "info"
    /\ calls' = Append(calls, Event("estimate", tick, current_stat, prev_stat))
    /\ UNCHANGED <<proc_stat, overflow_checks, prev_stat, current_stat, result, stdout,
                   tick, host, ret>>

\* let result = Stat::get_system_info(cpu_usage);
Assemble ==
    /\ pc = "info"
    /\ \E h \in MainHosts :
        /\ host' = h
        /\ result' = get_system_info(cpu_usage, h).res
    /\ pc' = "print"
    /\ calls' = Append(calls, Event("assemble", tick, NoStat, NoStat))
    /\ UNCHANGED <<proc_stat, overflow_checks, prev_stat, current_stat, cpu_usage,
                   stdout, tick, ret>>

\* mutant: the record is printed before the counters of the tick are read
EmitAfterSleep ==
    /\ pc \in {"read", "print"}
    /\ stdout' = Append(stdout, [tick |-> tick, record |-> to_result(result)])
    /\ pc' = IF pc = "read" THEN "read" ELSE "store"
    /\ Len(stdout) < tick
    /\ calls' = Append(calls, Event("emit", tick, NoStat, NoStat))
    /\ UNCHANGED <<proc_stat, overflow_checks, prev_stat, current_stat, cpu_usage,
                   result, tick, host, ret>>

\* println!("system info: {}", to_result(result));
Emit ==
    /\ pc = "print"
    /\ stdout' = Append(stdout, [tick |-> tick, record |-> to_result(result)])
    /\ pc' = "store"
    /\ calls' = Append(calls, Event("emit", tick, NoStat, NoStat))
    /\ UNCHANGED <<proc_stat, overflow_checks, prev_stat, current_stat, cpu_usage,
                   result, tick, host, ret>>

\* prev_stat = current_stat.clone();
Store ==
    /\ pc = "store"
    /\ prev_stat' = current_stat
    /\ pc' = "sleep"
    /\ calls' = Append(calls, Event("store", tick, current_stat, NoStat))
    /\ UNCHANGED <<proc_stat, overflow_checks, current_stat, cpu_usage, result, stdout,
                   tick, host, ret>>

Next == StartupRead \/ Sleep \/ Read \/ Calc \/ Assemble \/ Emit \/ Store

Spec == Init /\ [][Next]_vars

----------------------------------------------------------------------------
(* Properties of the sampling loop, stated on the history of its steps *)

EventsOf(op) == {i \in 1..Len(calls) : calls[i].op = op}

\* a successful counter read of tick n happened before position i of the history
ReadBefore(n, i) == \E j \in 1..(i - 1) : calls[j].op = "read" /\ calls[j].tick = n

\* the counters read in tick n (n = 0: the startup read)
CountersReadIn(n) == calls[CHOOSE j \in EventsOf("read") : calls[j].tick = n].a

ReadFailedIn(n) == \E j \in EventsOf("read_failed") : calls[j].tick = n

\* C4: exactly one record is emitted per tick, in tick order; the record of tick n is
\* emitted only after the counter read of tick n and the startup read succeeded, and
\* none before the first sleep and first in-loop read.
C4_OneRecordPerTickInOrder ==
    /\ Len(stdout) = Cardinality(EventsOf("emit"))
    /\ \A k \in 1..Len(stdout) : stdout[k].tick = k
    /\ \A i \in EventsOf("emit") :
           /\ calls[i].tick >= 1
           /\ ReadBefore(calls[i].tick, i) /\ ReadBefore(0, i)
           /\ \A j \in EventsOf("emit") : i < j => calls[i].tick < calls[j].tick
    /\ pc \in {"store", "sleep"} => Len(stdout) = tick
    /\ pc \in {"start", "read", "calc", "info", "print"} => Len(stdout) = IF tick = 0 THEN 0 ELSE tick - 1
    /\ pc = "crashed" => Len(stdout) = IF tick = 0 THEN 0 ELSE tick - 1

\* two ticks have completed, each with its record
C4_Witness ==
    /\ pc = "sleep" /\ tick = 2
    /\ Len(stdout) = 2 /\ stdout[1].tick = 1 /\ stdout[2].tick = 2
    /\ stdout[1].record[1] = <<"code", 200>> /\ stdout[2].record[1] = <<"code", 500>>

\* C5: at tick n the estimator is called with current = the counters read in tick n
\* and previous = the counters read in tick n-1 (the startup read for n = 1); the
\* previous-counters cell is written only at the end of a tick, after that tick's
\* record was emitted, and then holds the counters read in that tick; the estimator
\* and the assembler leave the cell alone.
C5_EstimatorOperandsAndCell ==
    /\ \A i \in EventsOf("estimate") :
           /\ calls[i].tick >= 1
           /\ calls[i].a = CountersReadIn(calls[i].tick)
           /\ calls[i].b = CountersReadIn(calls[i].tick - 1)
    /\ \A i \in EventsOf("store") :
           /\ \E j \in 1..(i - 1) : calls[j].op = "emit" /\ calls[j].tick = calls[i].tick
           /\ calls[i].a = CountersReadIn(calls[i].tick)
    /\ pc = "sleep" => prev_stat = CountersReadIn(tick)
    /\ pc \in {"read", "calc", "info", "print", "store"} => prev_stat = CountersReadIn(tick - 1)

\* the second tick estimates from the counters of the first tick, not the startup ones
C5_Witness ==
    /\ pc = "info" /\ tick = 2
    /\ CountersReadIn(0) /= CountersReadIn(1) /\ CountersReadIn(1) /= CountersReadIn(2)
    /\ calls[Len(calls)].op = "estimate"
    /\ calls[Len(calls)].a = CountersReadIn(2) /\ calls[Len(calls)].b = CountersReadIn(1)
    /\ prev_stat = CountersReadIn(1)

\* C6: no estimate and no record without two successful reads: a failed startup read
\* leaves zero ticks and zero records; a failed read in tick n leaves tick n without
\* estimate and record, and the previous-counters cell as it was.
C6_NoEstimateAfterFailedRead ==
    /\ ReadFailedIn(0) => (tick = 0 /\ stdout = <<>> /\ EventsOf("estimate") = {} /\ pc = "crashed")
    /\ \A i \in EventsOf("estimate") : ReadBefore(calls[i].tick, i) /\ ReadBefore(calls[i].tick - 1, i)
    /\ \A i \in EventsOf("emit") : ReadBefore(calls[i].tick, i) /\ ReadBefore(calls[i].tick - 1, i)
    /\ \A n \in 1..tick : ReadFailedIn(n) =>
           /\ \A i \in EventsOf("estimate") \cup EventsOf("emit") \cup EventsOf("store") :
                  calls[i].tick /= n
           /\ Len(stdout) = n - 1
           /\ prev_stat = CountersReadIn(n - 1)
           /\ pc = "crashed"

\* the read of the second tick failed after the first tick had completed
C6_Witness ==
    /\ pc = "crashed" /\ tick = 2
    /\ ReadFailedIn(2)
    /\ Len(stdout) = 1
    /\ prev_stat = CountersReadIn(1) /\ CountersReadIn(1) /= CountersReadIn(0)

====
